---- MODULE Spec2Model ----
(***************************************************************************)
(* The collection helpers of src/components/Option.js (has, omit, each,    *)
(* filter, isArrayLike, map, find, isEmpty, findIndex, first, last, size,  *)
(* some, union, uniqueId, extend, flatten) as a state machine.             *)
(*                                                                         *)
(* A JavaScript value is a record tagged by t.  Strings are sequences of   *)
(* one-character strings, so that String.prototype.indexOf and the         *)
(* concatenation in uniqueId are computed and not assumed.  Plain objects  *)
(* are references into the heap (a sequence of property lists in           *)
(* enumeration order); arrays carry their elements and an id that tells    *)
(* apart two arrays with the same elements where the code compares         *)
(* references.  A call ends in a completion: a value, or a thrown          *)
(* TypeError.                                                              *)
(***************************************************************************)
EXTENDS Integers, Sequences, FiniteSets

VARIABLES idCounter, issued, heap, pc, call

vars == <<idCounter, issued, heap, pc, call>>

(***************************************************************************)
(* Bounds of the model.                                                    *)
(***************************************************************************)
MaxLen == 2
MaxArgs == 2
MaxDepth == 2
MaxCalls == 11

(***************************************************************************)
(* JavaScript values.                                                      *)
(***************************************************************************)
Undefined == [t |-> "undefined"]
Null == [t |-> "null"]
Bool(b) == [t |-> "boolean", b |-> b]
Num(n) == [t |-> "number", n |-> n]
Str(s) == [t |-> "string", s |-> s]
Arr(id, a) == [t |-> "array", id |-> id, a |-> a]
Ref(id) == [t |-> "object", id |-> id]
Fn(f) == [t |-> "function", f |-> f]

\* ToBoolean, as applied by if (obj), !fields, predicate && ...
Truthy(v) ==
  CASE v.t = "undefined" -> FALSE
    [] v.t = "null" -> FALSE
    [] v.t = "boolean" -> v.b
    [] v.t = "number" -> v.n # 0
    [] v.t = "string" -> v.s # <<>>
    [] OTHER -> TRUE

Digits == <<"0", "1", "2", "3", "4", "5", "6", "7", "8", "9">>

\* Number to string, for a non-negative integer: idCounter + '' and the
\* property key of an index.
RECURSIVE ToString(_)
ToString(n) ==
  IF n < 10 THEN <<Digits[n + 1]>>
  ELSE ToString(n \div 10) \o <<Digits[(n % 10) + 1]>>

LENGTH == <<"l", "e", "n", "g", "t", "h">>

\* A completion without and with a thrown TypeError.
Normal(v) == [thrown |-> FALSE, value |-> v]
Throw == [thrown |-> TRUE, value |-> Undefined]

\* The indices 0 .. n-1 whose key string is key.
IndexOfKey(key, n) == {i \in 0..(n - 1) : ToString(i) = key}

\* The position of key in a property list, 0 when it is not an own key.
PropIndex(kv, key) ==
  LET hits == {i \in 1..Len(kv) : kv[i].k = key}
  IN IF hits = {} THEN 0 ELSE CHOOSE i \in hits : TRUE

\* The own enumerable keys of obj, as for (const key in obj) visits them.
ForIn(h, obj) ==
  CASE obj.t = "array" -> [i \in 1..Len(obj.a) |-> ToString(i - 1)]
    [] obj.t = "string" -> [i \in 1..Len(obj.s) |-> ToString(i - 1)]
    [] obj.t = "object" -> [i \in 1..Len(h[obj.id]) |-> h[obj.id][i].k]
    [] OTHER -> <<>>

\* Object.prototype.hasOwnProperty.call(obj, key) on a value that is neither
\* null nor undefined.
HasOwn(h, obj, key) ==
  CASE obj.t = "array" -> key = LENGTH \/ IndexOfKey(key, Len(obj.a)) # {}
    [] obj.t = "string" -> key = LENGTH \/ IndexOfKey(key, Len(obj.s)) # {}
    [] obj.t = "object" -> PropIndex(h[obj.id], key) # 0
    [] OTHER -> FALSE

\* The property read obj[key]; reading a property of null or undefined throws.
Get(h, obj, key) ==
  CASE obj.t \in {"undefined", "null"} -> Throw
    [] obj.t = "array" ->
         IF key = LENGTH THEN Normal(Num(Len(obj.a)))
         ELSE LET ix == IndexOfKey(key, Len(obj.a))
              IN IF ix = {} THEN Normal(Undefined)
                 ELSE Normal(obj.a[(CHOOSE i \in ix : TRUE) + 1])
    [] obj.t = "string" ->
         IF key = LENGTH THEN Normal(Num(Len(obj.s)))
         ELSE LET ix == IndexOfKey(key, Len(obj.s))
              IN IF ix = {} THEN Normal(Undefined)
                 ELSE Normal(Str(<<obj.s[(CHOOSE i \in ix : TRUE) + 1]>>))
    [] obj.t = "object" ->
         LET p == PropIndex(h[obj.id], key)
         IN IF p = 0 THEN Normal(Undefined) ELSE Normal(h[obj.id][p].v)
    [] OTHER -> Normal(Undefined)

\* The assignment obj[key] = v on a property list: an own key keeps its
\* place, a new key that is no array index goes last.
Put(kv, key, v) ==
  LET p == PropIndex(kv, key)
  IN IF p = 0 THEN Append(kv, [k |-> key, v |-> v])
     ELSE [kv EXCEPT ![p] = [k |-> key, v |-> v]]

(***************************************************************************)
(* The state a call threads through its loops and callbacks: whether a     *)
(* TypeError was thrown, the invocations of the caller's predicate so far, *)
(* the value of the last invocation, the local result, whether the loop    *)
(* was left by break, and the heap.                                        *)
(***************************************************************************)
Start(h) ==
  [thrown |-> FALSE, log |-> <<>>, rv |-> Undefined, result |-> Undefined,
   brk |-> FALSE, heap |-> h]

\* return v, or the TypeError thrown on the way.
Return(S, v) ==
  [thrown |-> S.thrown, value |-> IF S.thrown THEN Undefined ELSE v,
   log |-> S.log, heap |-> S.heap]

Arg(args, i) == IF i <= Len(args) THEN args[i] ELSE Undefined

\* The functions callers pass as predicate.
PredApply(f, args) ==
  CASE f = "identity" -> Arg(args, 1)
    [] f = "isOne" -> Bool(Arg(args, 1) = Num(1))
    [] f = "pair" -> Arr(0, <<Arg(args, 1), Arg(args, 2)>>)
    [] f = "never" -> Undefined

\* Array.prototype.indexOf: the first index holding a value strictly equal to
\* v, or -1.
ArrayIndexOf(a, v) ==
  LET hits == {i \in 1..Len(a) : a[i] = v}
  IN IF hits = {} THEN -1
     ELSE (CHOOSE i \in hits : \A j \in hits : i <= j) - 1

\* String.prototype.indexOf: the first index at which key occurs in s as a
\* substring, or -1.
StringIndexOf(s, key) ==
  LET hits == {i \in 0..(Len(s) - Len(key)) :
                 SubSeq(s, i + 1, i + Len(key)) = key}
  IN IF hits = {} THEN -1
     ELSE CHOOSE i \in hits : \A j \in hits : i <= j

\* fields.indexOf(key): a TypeError when fields has no indexOf method.
IndexOf(fields, key) ==
  CASE fields.t = "string" -> Normal(Num(StringIndexOf(fields.s, key)))
    [] fields.t = "array" -> Normal(Num(ArrayIndexOf(fields.a, Str(key))))
    [] OTHER -> Throw

\* The arrow functions the helpers pass to each, as function values: the
\* variables they capture are fields, the array they push to is the result
\* of the call's state.
FilterArrow(predicate, context) ==
  [t |-> "function", f |-> "filter", predicate |-> predicate,
   context |-> context]

UnionArrow == [t |-> "function", f |-> "union"]

FlattenArrow == [t |-> "function", f |-> "flattenInternal"]

RECURSIVE Call(_, _, _, _)
RECURSIVE each(_, _, _, _)
RECURSIVE filterArrow(_, _, _, _)
RECURSIVE unionArrow(_, _)
RECURSIVE flattenArrow(_, _)
RECURSIVE flattenInternal(_, _)

\* predicate.call(context, ...args): a TypeError when predicate is no
\* function; the body of an arrow function of this module; an invocation of
\* the caller's function, which is logged.
Call(S, predicate, context, args) ==
  IF predicate.t # "function" THEN [S EXCEPT !.thrown = TRUE]
  ELSE CASE predicate.f = "filter" ->
              filterArrow(S, predicate.predicate, predicate.context, Arg(args, 1))
         [] predicate.f = "union" -> unionArrow(S, Arg(args, 1))
         [] predicate.f = "flattenInternal" -> flattenArrow(S, Arg(args, 1))
         [] OTHER ->
              [S EXCEPT !.log = Append(@, [this |-> context, args |-> args]),
                        !.rv = PredApply(predicate.f, args)]

(***************************************************************************)
(* The helpers.  A loop is the function from the number of iterations done *)
(* to the state reached; a throw, or a break, ends it.                     *)
(***************************************************************************)
has(h, obj, key) ==
  obj # Undefined /\ obj # Null /\ HasOwn(h, obj, key)

\* omit: result is a new object, allocated at the end of the heap.
omit(h, obj, fields) ==
  IF Truthy(obj) THEN
    LET result == Len(h) + 1
        ks == ForIn(h, obj)
        step[i \in 0..Len(ks)] ==
          IF i = 0 THEN Start(Append(h, <<>>))
          ELSE IF step[i - 1].thrown THEN step[i - 1]
          ELSE LET S == step[i - 1]
                   key == ks[i]
                   ix == IF Truthy(fields) THEN IndexOf(fields, key)
                         ELSE Normal(Num(-1))
               IN IF HasOwn(S.heap, obj, key) THEN
                    IF ix.thrown THEN [S EXCEPT !.thrown = TRUE]
                    ELSE IF ~Truthy(fields) \/ ix.value.n < 0 THEN
                      [S EXCEPT !.heap[result] =
                         Put(@, key, Get(S.heap, obj, key).value)]
                    ELSE S
                  ELSE S
    IN Return(step[Len(ks)], Ref(result))
  ELSE Return(Start(h), Undefined)

isArrayLike(h, obj) ==
  IF obj.t = "array" THEN Normal(Bool(TRUE))
  ELSE IF obj.t = "string" THEN Normal(Bool(FALSE))
  ELSE LET length == Get(h, obj, LENGTH)
       IN IF length.thrown THEN Throw
          ELSE Normal(Bool(length.value.t = "number" /\ length.value.n >= 0))

\* each, from the state S of the call it is part of.  Only a true array has
\* a forEach method: obj.forEach(...) on another array-like throws.
each(obj, predicate, context, S) ==
  IF Truthy(obj) THEN
    LET al == isArrayLike(S.heap, obj)
    IN IF al.thrown THEN [S EXCEPT !.thrown = TRUE]
       ELSE IF Truthy(al.value) THEN
         IF obj.t = "array" THEN
           LET step[i \in 0..Len(obj.a)] ==
                 IF i = 0 THEN S
                 ELSE IF step[i - 1].thrown THEN step[i - 1]
                 ELSE Call(step[i - 1], predicate, context, <<obj.a[i]>>)
           IN step[Len(obj.a)]
         ELSE [S EXCEPT !.thrown = TRUE]
       ELSE Call(S, predicate, context, <<obj>>)
  ELSE S

\* (obj) => { if (predicate && predicate.call(context, obj)) result.push(obj) }
filterArrow(S, predicate, context, obj) ==
  IF Truthy(predicate) THEN
    LET S1 == Call(S, predicate, context, <<obj>>)
    IN IF ~S1.thrown /\ Truthy(S1.rv)
       THEN [S1 EXCEPT !.result = Append(@, obj)]
       ELSE S1
  ELSE S

\* filter with an empty array, and not undefined, for a falsy iterable.
filterEmptyForAbsent(h, iterable, predicate, context) ==
  LET S == IF Truthy(iterable)
           THEN each(iterable, FilterArrow(predicate, context), Undefined,
                     [Start(h) EXCEPT !.result = <<>>])
           ELSE [Start(h) EXCEPT !.result = <<>>]
  IN Return(S, Arr(0, S.result))

filter(h, iterable, predicate, context) ==
  IF Truthy(iterable) THEN
    LET S == each(iterable, FilterArrow(predicate, context), Undefined,
                  [Start(h) EXCEPT !.result = <<>>])
    IN Return(S, Arr(0, S.result))
  ELSE Return(Start(h), Undefined)

\* keys: the own keys of obj in enumeration order, as an array of strings.
keys(h, obj) ==
  LET objKeys == SelectSeq(ForIn(h, obj), LAMBDA key : has(h, obj, key))
  IN Arr(0, [i \in 1..Len(objKeys) |-> Str(objKeys[i])])

\* An array slot no assignment has set.
Hole == [t |-> "hole"]

\* result[index] = v on an array: slots skipped over stay unset.
SetIndex(a, index, v) ==
  IF index < Len(a) THEN [a EXCEPT ![index + 1] = v]
  ELSE [i \in 1..(index + 1) |->
          IF i <= Len(a) THEN a[i] ELSE IF i = index + 1 THEN v ELSE Hole]

\* The property key a value used as obj[currentKey] stands for.
ToPropertyKey(v) == IF v.t = "number" THEN ToString(v.n) ELSE v.s

\* map passing the position and not the key of a mapping's entry.
mapIndexAsKey(h, obj, predicate, context) ==
  IF Truthy(obj) THEN
    LET objKeys == IF ~Truthy(isArrayLike(h, obj).value) THEN keys(h, obj)
                   ELSE Bool(FALSE)
        length == Get(h, IF Truthy(objKeys) THEN objKeys ELSE obj, LENGTH).value
        step[i \in 0..length.n] ==
          IF i = 0 THEN [Start(h) EXCEPT !.result = <<>>]
          ELSE IF step[i - 1].thrown THEN step[i - 1]
          ELSE LET S == step[i - 1]
                   index == i - 1
                   currentKey == IF Truthy(objKeys)
                                 THEN Get(h, objKeys, ToString(index)).value
                                 ELSE Num(index)
               IN IF Truthy(predicate) THEN
                    LET S1 == Call(S, predicate, context,
                                   <<Get(h, obj, ToPropertyKey(currentKey)).value,
                                     Num(index)>>)
                    IN IF S1.thrown THEN S1
                       ELSE [S1 EXCEPT !.result = SetIndex(@, index, S1.rv)]
                  ELSE S
    IN Return(step[length.n], Arr(0, step[length.n].result))
  ELSE Return(Start(h), Undefined)

map(h, obj, predicate, context) ==
  IF Truthy(obj) THEN
    LET objKeys == IF ~Truthy(isArrayLike(h, obj).value) THEN keys(h, obj)
                   ELSE Bool(FALSE)
        length == Get(h, IF Truthy(objKeys) THEN objKeys ELSE obj, LENGTH).value
        step[i \in 0..length.n] ==
          IF i = 0 THEN [Start(h) EXCEPT !.result = <<>>]
          ELSE IF step[i - 1].thrown THEN step[i - 1]
          ELSE LET S == step[i - 1]
                   index == i - 1
                   currentKey == IF Truthy(objKeys)
                                 THEN Get(h, objKeys, ToString(index)).value
                                 ELSE Num(index)
               IN IF Truthy(predicate) THEN
                    LET S1 == Call(S, predicate, context,
                                   <<Get(h, obj, ToPropertyKey(currentKey)).value,
                                     currentKey>>)
                    IN IF S1.thrown THEN S1
                       ELSE [S1 EXCEPT !.result = SetIndex(@, index, S1.rv)]
                  ELSE S
    IN Return(step[length.n], Arr(0, step[length.n].result))
  ELSE Return(Start(h), Undefined)

\* source = iterable when it is array-like, [iterable] otherwise.
Source(h, iterable) ==
  IF Truthy(isArrayLike(h, iterable).value) THEN iterable
  ELSE Arr(0, <<iterable>>)

\* find without the break: the scan goes on after a match.
findNoBreak(h, iterable, predicate, context) ==
  IF Truthy(iterable) THEN
    LET source == Source(h, iterable)
        length == Get(h, source, LENGTH).value.n
        step[i \in 0..length] ==
          IF i = 0 THEN Start(h)
          ELSE IF step[i - 1].thrown THEN step[i - 1]
          ELSE LET S == step[i - 1]
                   elm == Get(h, source, ToString(i - 1)).value
               IN IF Truthy(predicate) THEN
                    LET S1 == Call(S, predicate, context, <<elm>>)
                    IN IF ~S1.thrown /\ Truthy(S1.rv)
                       THEN [S1 EXCEPT !.result = elm]
                       ELSE S1
                  ELSE S
    IN Return(step[length], step[length].result)
  ELSE Return(Start(h), Undefined)

find(h, iterable, predicate, context) ==
  IF Truthy(iterable) THEN
    LET source == Source(h, iterable)
        length == Get(h, source, LENGTH).value.n
        step[i \in 0..length] ==
          IF i = 0 THEN Start(h)
          ELSE IF step[i - 1].thrown \/ step[i - 1].brk THEN step[i - 1]
          ELSE LET S == step[i - 1]
                   elm == Get(h, source, ToString(i - 1)).value
               IN IF Truthy(predicate) THEN
                    LET S1 == Call(S, predicate, context, <<elm>>)
                    IN IF ~S1.thrown /\ Truthy(S1.rv)
                       THEN [S1 EXCEPT !.result = elm, !.brk = TRUE]
                       ELSE S1
                  ELSE S
    IN Return(step[length], step[length].result)
  ELSE Return(Start(h), Undefined)

isEmpty(h, iterable) ==
  IF ~Truthy(iterable) THEN Bool(TRUE)
  ELSE Bool(Get(h, iterable, LENGTH).value = Num(0))

findIndex(h, iterable, predicate, context) ==
  IF Truthy(iterable) THEN
    LET source == Source(h, iterable)
        length == Get(h, source, LENGTH).value.n
        step[i \in 0..length] ==
          IF i = 0 THEN Start(h)
          ELSE IF step[i - 1].thrown \/ step[i - 1].brk THEN step[i - 1]
          ELSE LET S == step[i - 1]
                   elm == Get(h, source, ToString(i - 1)).value
               IN IF Truthy(predicate) THEN
                    LET S1 == Call(S, predicate, context, <<elm>>)
                    IN IF ~S1.thrown /\ Truthy(S1.rv)
                       THEN [S1 EXCEPT !.result = Num(i - 1), !.brk = TRUE]
                       ELSE S1
                  ELSE S
    IN Return(step[length], step[length].result)
  ELSE Return(Start(h), Undefined)

first(h, iterable) ==
  IF Truthy(iterable) THEN
    IF Truthy(isArrayLike(h, iterable).value) THEN
      IF Get(h, iterable, LENGTH).value.n > 0
      THEN Get(h, iterable, ToString(0)).value
      ELSE Undefined
    ELSE iterable
  ELSE Undefined

last(h, iterable) ==
  IF Truthy(iterable) THEN
    IF Truthy(isArrayLike(h, iterable).value) THEN
      IF Get(h, iterable, LENGTH).value.n > 0
      THEN Get(h, iterable, ToString(Get(h, iterable, LENGTH).value.n - 1)).value
      ELSE Undefined
    ELSE iterable
  ELSE Undefined

size(h, iterable) ==
  IF Truthy(iterable) THEN Get(h, Source(h, iterable), LENGTH).value
  ELSE Num(0)

some(h, iterable, predicate, context) ==
  IF Truthy(iterable) THEN
    LET source == Source(h, iterable)
        length == Get(h, source, LENGTH).value.n
        step[i \in 0..length] ==
          IF i = 0 THEN Start(h)
          ELSE IF step[i - 1].thrown \/ step[i - 1].brk THEN step[i - 1]
          ELSE LET S == step[i - 1]
                   elm == Get(h, source, ToString(i - 1)).value
               IN IF Truthy(predicate) THEN
                    LET S1 == Call(S, predicate, context, <<elm>>)
                    IN IF ~S1.thrown /\ Truthy(S1.rv)
                       THEN [S1 EXCEPT !.result = Bool(TRUE), !.brk = TRUE]
                       ELSE S1
                  ELSE S
    IN Return(step[length], step[length].result)
  ELSE Return(Start(h), Undefined)

\* (obj) => { if (result.indexOf(obj) < 0) result.push(obj) }
unionArrow(S, obj) ==
  IF ArrayIndexOf(S.result, obj) < 0
  THEN [S EXCEPT !.result = Append(@, obj)]
  ELSE S

\* union: arrs is the list of the arguments.
union(h, arrs) ==
  IF Truthy(Arr(0, arrs)) THEN
    LET step[i \in 0..Len(arrs)] ==
          IF i = 0 THEN [Start(h) EXCEPT !.result = <<>>]
          ELSE IF step[i - 1].thrown THEN step[i - 1]
          ELSE IF Truthy(arrs[i])
               THEN each(arrs[i], UnionArrow, Undefined, step[i - 1])
               ELSE step[i - 1]
    IN Return(step[Len(arrs)], Arr(0, step[Len(arrs)].result))
  ELSE Return(Start(h), Undefined)

\* const id = ++idCounter + ''; return prefix ? prefix + id : id, with the
\* counter after the call.
uniqueId(counter, prefix) ==
  LET id == ToString(counter + 1)
  IN [counter |-> counter + 1,
      value |-> IF Truthy(prefix) THEN Str(prefix.s \o id) ELSE Str(id)]

\* obj1[key] = v.  The module is strict code, where creating a property on a
\* primitive value throws.
Assign(S, obj1, key, v) ==
  IF obj1.t = "object" THEN [S EXCEPT !.heap[obj1.id] = Put(@, key, v)]
  ELSE [S EXCEPT !.thrown = TRUE]

\* The for-in loop of extend that keeps a key obj1 already owns: the first
\* owner wins.
CopyKeysKeepFirst(S, obj1, obj) ==
  LET ks == ForIn(S.heap, obj)
      step[i \in 0..Len(ks)] ==
        IF i = 0 THEN S
        ELSE IF step[i - 1].thrown THEN step[i - 1]
        ELSE IF /\ HasOwn(step[i - 1].heap, obj, ks[i])
                /\ ~HasOwn(step[i - 1].heap, obj1, ks[i])
             THEN Assign(step[i - 1], obj1, ks[i],
                         Get(step[i - 1].heap, obj, ks[i]).value)
             ELSE step[i - 1]
  IN step[Len(ks)]

\* for (const key in obj) if (obj.hasOwnProperty(key)) obj1[key] = obj[key],
\* from the state S.
CopyKeys(S, obj1, obj) ==
  LET ks == ForIn(S.heap, obj)
      step[i \in 0..Len(ks)] ==
        IF i = 0 THEN S
        ELSE IF step[i - 1].thrown THEN step[i - 1]
        ELSE IF HasOwn(step[i - 1].heap, obj, ks[i])
             THEN Assign(step[i - 1], obj1, ks[i],
                         Get(step[i - 1].heap, obj, ks[i]).value)
             ELSE step[i - 1]
  IN step[Len(ks)]

\* extend: objs is the list of the arguments after obj1.
extend(h, obj1, objs) ==
  IF Truthy(obj1) /\ Truthy(Arr(0, objs)) THEN
    LET step[i \in 0..Len(objs)] ==
          IF i = 0 THEN Start(h)
          ELSE IF step[i - 1].thrown THEN step[i - 1]
          ELSE IF Truthy(objs[i])
               THEN CopyKeys(step[i - 1], obj1, objs[i])
               ELSE step[i - 1]
    IN Return(step[Len(objs)], obj1)
  ELSE Return(Start(h), obj1)

\* The arrow function of flattenInternal without the recursive call: a
\* nested array is pushed as it is.
flattenArrowNoRecursion(S, obj) ==
  [S EXCEPT !.result = Append(@, obj)]

\* (obj) => { if (Array.isArray(obj)) flattenInternal(output, obj);
\*            else output.push(obj) }
flattenArrow(S, obj) ==
  IF obj.t = "array" THEN flattenInternal(S, obj)
  ELSE [S EXCEPT !.result = Append(@, obj)]

\* flattenInternal: output is the result of the state S.
flattenInternal(S, element) ==
  IF Truthy(element) THEN each(element, FlattenArrow, Undefined, S)
  ELSE S

\* flatten: arrays is the list of the arguments.
flatten(h, arrays) ==
  IF Truthy(Arr(0, arrays)) THEN
    LET S == flattenInternal([Start(h) EXCEPT !.result = <<>>], Arr(0, arrays))
    IN Return(S, Arr(0, S.result))
  ELSE Return(Start(h), Undefined)

(***************************************************************************)
(* The inputs.                                                             *)
(***************************************************************************)
\* The objects the caller holds when it calls.
Prop(k, v) == [k |-> k, v |-> v]

ObjectTable ==
  << <<Prop(<<"a">>, Num(1))>>,
     <<Prop(<<"b">>, Num(2))>>,
     <<Prop(<<"a">>, Num(3))>>,
     <<Prop(<<"a">>, Num(1)), Prop(<<"a", "b">>, Num(2)), Prop(<<"b">>, Num(3))>>,
     <<Prop(<<"0">>, Num(1)), Prop(<<"1">>, Num(0)), Prop(LENGTH, Num(2))>>,
     <<Prop(LENGTH, Num(0))>>,
     <<Prop(LENGTH, Num(-1))>>,
     <<>> >>

Refs == {Ref(i) : i \in 1..Len(ObjectTable)}

Scalars ==
  {Undefined, Null, Bool(FALSE), Bool(TRUE), Num(0), Num(1),
   Str(<<>>), Str(<<"a">>), Str(<<"a", "b">>)}

SeqsUpTo(n, S) == UNION {[1..m -> S] : m \in 0..n}

Elems == {Undefined, Num(0), Num(1), Str(<<"a">>)}

Arrays == {Arr(0, a) : a \in SeqsUpTo(MaxLen, Elems)}

Values == Scalars \cup Refs \cup Arrays

Predicates == {Undefined, Fn("identity"), Fn("isOne"), Fn("pair"), Fn("never")}

Contexts == {Undefined, Ref(8)}

\* The prefixes uniqueId is given: none, one ending in a digit, one that does
\* not.
Prefixes == {Undefined, Str(<<"1">>), Str(<<"a">>)}

\* The keys has is asked for.
Keys == {<<"a">>, <<"0">>, LENGTH}

\* The fields omit is given: nothing, a key string, a sequence of key strings,
\* or a number.
FieldChars == {"a", "b"}

Fields ==
  {Undefined, Num(1)}
    \cup {Str(f) : f \in SeqsUpTo(MaxLen, FieldChars)}
    \cup {Arr(0, a) :
            a \in SeqsUpTo(MaxLen, {Str(<<"a">>), Str(<<"a", "b">>), Str(<<"b">>)})}

\* The arguments of union: falsy values, values that are not array-like, an
\* array-like object, and arrays of a falsy number and of two distinct arrays
\* with the same elements.
UnionElems == {Num(0), Arr(1, <<>>), Arr(2, <<>>)}

UnionArgs ==
  {Undefined, Num(0), Str(<<"a">>), Ref(1), Ref(5)}
    \cup {Arr(0, a) : a \in SeqsUpTo(MaxLen, UnionElems)}

\* The arguments of extend.
Targets == {Undefined, Num(0), Num(1), Str(<<"a">>), Ref(1), Ref(2), Ref(8)}

Sources == {Undefined, Num(0), Ref(1), Ref(2), Ref(3)}

\* The arguments of flatten.  The leaves are a falsy value, a number and an
\* array-like object.  Arrays hold at most two elements; a list nested d deep
\* holds leaves only, or one array nested d - 1 deep, alone or beside a leaf,
\* an empty array or an array of two leaves.
Leaves == {Undefined, Num(1), Ref(5)}

Shallow == Leaves \cup {Arr(0, <<>>), Arr(0, <<Undefined, Ref(5)>>)}

RECURSIVE NestedLists(_)
NestedLists(d) ==
  IF d = 0 THEN SeqsUpTo(2, Leaves)
  ELSE LET inner == {Arr(0, a) : a \in NestedLists(d - 1)}
       IN SeqsUpTo(2, Leaves)
            \cup {<<x>> : x \in inner}
            \cup {<<x, y>> : x \in inner, y \in Shallow}
            \cup {<<y, x>> : x \in inner, y \in Shallow}

(***************************************************************************)
(* The calls.  A run is one call of one helper on the caller's heap; only  *)
(* uniqueId keeps state between calls, and its runs are sequences of calls.*)
(***************************************************************************)
Done(op, args, c) ==
  /\ pc' = "done"
  /\ heap' = c.heap
  /\ call' = [op |-> op, args |-> args, thrown |-> c.thrown, value |-> c.value,
              log |-> c.log]
  /\ UNCHANGED <<idCounter, issued>>

\* The completion of a helper that calls no predicate and writes no object.
Pure(h, c) ==
  [thrown |-> c.thrown, value |-> c.value, log |-> <<>>, heap |-> h]

Has ==
  /\ pc = "ready"
  /\ \E obj \in Values, key \in Keys :
       Done("has", <<obj, Str(key)>>, Pure(heap, Normal(Bool(has(heap, obj, key)))))

Omit ==
  /\ pc = "ready"
  /\ \E obj \in Values, fields \in Fields :
       Done("omit", <<obj, fields>>, omit(heap, obj, fields))

Each ==
  /\ pc = "ready"
  /\ \E obj \in Values, predicate \in Predicates, context \in Contexts :
       Done("each", <<obj, predicate, context>>,
            Return(each(obj, predicate, context, Start(heap)), Undefined))

Filter ==
  /\ pc = "ready"
  /\ \E iterable \in Values, predicate \in Predicates, context \in Contexts :
       Done("filter", <<iterable, predicate, context>>,
            filter(heap, iterable, predicate, context))

IsArrayLike ==
  /\ pc = "ready"
  /\ \E obj \in Values :
       Done("isArrayLike", <<obj>>, Pure(heap, isArrayLike(heap, obj)))

Map ==
  /\ pc = "ready"
  /\ \E obj \in Values, predicate \in Predicates, context \in Contexts :
       Done("map", <<obj, predicate, context>>,
            map(heap, obj, predicate, context))

Find ==
  /\ pc = "ready"
  /\ \E iterable \in Values, predicate \in Predicates, context \in Contexts :
       Done("find", <<iterable, predicate, context>>,
            find(heap, iterable, predicate, context))

IsEmpty ==
  /\ pc = "ready"
  /\ \E iterable \in Values :
       Done("isEmpty", <<iterable>>, Pure(heap, Normal(isEmpty(heap, iterable))))

FindIndex ==
  /\ pc = "ready"
  /\ \E iterable \in Values, predicate \in Predicates, context \in Contexts :
       Done("findIndex", <<iterable, predicate, context>>,
            findIndex(heap, iterable, predicate, context))

First ==
  /\ pc = "ready"
  /\ \E iterable \in Values :
       Done("first", <<iterable>>, Pure(heap, Normal(first(heap, iterable))))

Last ==
  /\ pc = "ready"
  /\ \E iterable \in Values :
       Done("last", <<iterable>>, Pure(heap, Normal(last(heap, iterable))))

Size ==
  /\ pc = "ready"
  /\ \E iterable \in Values :
       Done("size", <<iterable>>, Pure(heap, Normal(size(heap, iterable))))

Some ==
  /\ pc = "ready"
  /\ \E iterable \in Values, predicate \in Predicates, context \in Contexts :
       Done("some", <<iterable, predicate, context>>,
            some(heap, iterable, predicate, context))

Union ==
  /\ pc = "ready"
  /\ \E arrs \in SeqsUpTo(MaxArgs, UnionArgs) :
       Done("union", arrs, union(heap, arrs))

Extend ==
  /\ pc = "ready"
  /\ \E obj1 \in Targets, objs \in SeqsUpTo(MaxArgs, Sources) :
       Done("extend", <<obj1>> \o objs, extend(heap, obj1, objs))

Flatten ==
  /\ pc = "ready"
  /\ \E arrays \in NestedLists(MaxDepth) :
       Done("flatten", arrays, flatten(heap, arrays))

UniqueId ==
  /\ idCounter < MaxCalls
  /\ \E prefix \in Prefixes :
       LET r == uniqueId(idCounter, prefix)
       IN /\ idCounter' = r.counter
          /\ issued' = Append(issued, r.value)
  /\ UNCHANGED <<heap, pc, call>>

Init ==
  /\ idCounter = 0
  /\ issued = <<>>
  /\ heap = ObjectTable
  /\ pc = "ready"
  /\ call = [op |-> "none"]

Next ==
  \/ Has
  \/ Omit
  \/ Each
  \/ Filter
  \/ IsArrayLike
  \/ Map
  \/ Find
  \/ IsEmpty
  \/ FindIndex
  \/ First
  \/ Last
  \/ Size
  \/ Some
  \/ Union
  \/ Extend
  \/ Flatten

Spec == Init /\ [][Next]_vars

\* The runs of uniqueId alone.
NextId == UniqueId

SpecId == Init /\ [][NextId]_vars

(***************************************************************************)
(* The claims.  A call's arguments, completion and predicate invocations   *)
(* are in call; the heap before the call is ObjectTable, the heap after it *)
(* is heap.                                                                *)
(***************************************************************************)
Invocation(context, args) == [this |-> context, args |-> args]

\* An object, not a true array, that isArrayLike classifies as array-like.
ArrayLikeObject(h, v) == v.t = "object" /\ Truthy(isArrayLike(h, v).value)

\* The elements at the indices 0 .. length-1 of an array or array-like object.
ElementsOf(h, v) ==
  IF v.t = "array" THEN v.a
  ELSE [i \in 1..Get(h, v, LENGTH).value.n |-> Get(h, v, ToString(i - 1)).value]

\* A truthy iterable as the sequence find, findIndex and some scan.
Normalised(h, v) ==
  IF v.t = "array" \/ ArrayLikeObject(h, v) THEN ElementsOf(h, v) ELSE <<v>>

RECURSIVE Concat(_)
Concat(ss) == IF ss = <<>> THEN <<>> ELSE Head(ss) \o Concat(Tail(ss))

\* C1: no two calls of uniqueId in one process return the same string,
\* whatever mix of absent and string prefixes they are given.
C1_UniqueIds ==
  \A i, j \in 1..Len(issued) : i # j => issued[i] # issued[j]

\* fields, a key string or a sequence of key strings, lists key.
Listed(fields, key) ==
  CASE fields.t = "string" -> fields.s = key
    [] fields.t = "array" -> \E i \in 1..Len(fields.a) : fields.a[i] = Str(key)
    [] OTHER -> FALSE

\* C2: for a mapping obj and fields a key string, a sequence of key strings or
\* falsy, omit returns a new mapping holding exactly the entries of obj whose
\* key is not listed in fields (all of them for falsy fields), and leaves
\* every object of the caller unchanged.
C2_OmitExactKeys ==
  (/\ call.op = "omit"
   /\ call.args[1].t = "object"
   /\ (~Truthy(call.args[2]) \/ call.args[2].t \in {"string", "array"}))
  => /\ ~call.thrown
     /\ call.value.t = "object"
     /\ call.value.id \notin 1..Len(ObjectTable)
     /\ call.value.id \in 1..Len(heap)
     /\ heap[call.value.id] =
          SelectSeq(ObjectTable[call.args[1].id],
                    LAMBDA p : ~Truthy(call.args[2]) \/ ~Listed(call.args[2], p.k))
     /\ \A i \in 1..Len(ObjectTable) : heap[i] = ObjectTable[i]

\* C3: for a truthy obj and a function predicate, each returns undefined
\* after invoking predicate once per element in ascending index order, with
\* the element as its only argument, when obj is array-like (a true array or
\* an object with a numeric length >= 0), and exactly once with obj itself
\* when it is not.
C3_EachVisits ==
  (/\ call.op = "each"
   /\ Truthy(call.args[1])
   /\ call.args[2].t = "function")
  => /\ ~call.thrown
     /\ call.value = Undefined
     /\ call.log =
          IF Truthy(isArrayLike(ObjectTable, call.args[1]).value)
          THEN [i \in 1..Len(ElementsOf(ObjectTable, call.args[1])) |->
                  Invocation(call.args[3],
                             <<ElementsOf(ObjectTable, call.args[1])[i]>>)]
          ELSE <<Invocation(call.args[3], <<call.args[1]>>)>>

\* C4: no call of a helper, given a predicate that is a function or absent,
\* ends in a thrown fault.
C4_NoFault ==
  call.op # "none" => ~call.thrown

\* The helpers whose first argument is the collection, and the two whose
\* arguments are all collections.
UnaryAggregates ==
  {"filter", "map", "find", "findIndex", "some", "first", "last", "each",
   "extend", "omit"}

VariadicAggregates == {"union", "flatten"}

AbsentCollection ==
  \/ call.op \in UnaryAggregates /\ call.args[1] = Undefined
  \/ /\ call.op \in VariadicAggregates
     /\ Len(call.args) >= 1
     /\ \A i \in 1..Len(call.args) : call.args[i] = Undefined

\* C5, as claimed: every aggregate helper (filter, map, find, findIndex, some,
\* first, last, each, union, flatten, extend, omit) called with an undefined
\* collection returns undefined and invokes predicate zero times.
C5_AbsentIsUndefined ==
  AbsentCollection =>
    ~call.thrown /\ call.value = Undefined /\ call.log = <<>>

\* C5, amended: filter, map, find, findIndex, some, first, last, each, extend
\* and omit called with an undefined collection return undefined without a
\* fault and invoke predicate zero times; union called with undefined
\* arguments only returns an empty sequence, and flatten a sequence holding
\* one undefined per argument.
C5_AbsentCollection ==
  AbsentCollection =>
    /\ ~call.thrown
    /\ call.log = <<>>
    /\ call.op \in UnaryAggregates => call.value = Undefined
    /\ call.op = "union" => call.value = Arr(0, <<>>)
    /\ call.op = "flatten" => call.value = Arr(0, call.args)

C5_Witness ==
  /\ call.op = "filter"
  /\ call.args[1] = Undefined
  /\ call.args[2].t = "function"
  /\ call.value = Undefined

\* What an argument of union contributes: nothing when falsy, its elements
\* when an array or an array-like object, itself otherwise.
Contribution(arg) ==
  IF ~Truthy(arg) THEN <<>>
  ELSE IF arg.t = "array" THEN arg.a
  ELSE IF ArrayLikeObject(ObjectTable, arg) THEN ElementsOf(ObjectTable, arg)
  ELSE <<arg>>

Candidates(args) == Concat([i \in 1..Len(args) |-> Contribution(args[i])])

FirstAt(c, v) == CHOOSE i \in 1..Len(c) : c[i] = v /\ \A j \in 1..(i - 1) : c[j] # v

\* C6: for any arguments, union returns a sequence without two strictly
\* equal elements, that holds exactly the values the truthy arguments
\* contribute (the elements of an array or array-like argument, falsy ones
\* included, or the argument itself when it is not array-like), ordered by
\* first occurrence from left to right; falsy arguments contribute nothing.
C6_UnionDistinctInOrder ==
  call.op = "union" =>
     /\ ~call.thrown
     /\ call.value.t = "array"
     /\ LET c == Candidates(call.args)
            r == call.value.a
        IN /\ \A i, j \in 1..Len(r) : i # j => r[i] # r[j]
           /\ \A i \in 1..Len(r) : \E j \in 1..Len(c) : c[j] = r[i]
           /\ \A j \in 1..Len(c) : \E i \in 1..Len(r) : r[i] = c[j]
           /\ \A i, j \in 1..Len(r) :
                i < j => FirstAt(c, r[i]) < FirstAt(c, r[j])

\* The part of C6 that the code keeps: the same statement for arguments that
\* are falsy, true arrays or not array-like.
C6_UnionOfArrays ==
  (/\ call.op = "union"
   /\ \A i \in 1..Len(call.args) : ~ArrayLikeObject(ObjectTable, call.args[i]))
  => C6_UnionDistinctInOrder

C6_Witness ==
  /\ call.op = "union"
  /\ Len(call.args) = 2
  /\ call.args[1].t = "array"
  /\ call.args[2].t = "array"
  /\ ~call.thrown
  /\ Len(call.value.a) = 3
  /\ Len(Candidates(call.args)) = 4

\* The leaves of a value in depth-first, left-to-right order.
RECURSIVE LeafList(_)
LeafList(v) ==
  IF v.t = "array" THEN Concat([i \in 1..Len(v.a) |-> LeafList(v.a[i])])
  ELSE <<v>>

\* C7: flatten returns a sequence that holds no true array and lists every
\* leaf of its arguments (falsy leaves and array-like objects included, as
\* they are) in depth-first, left-to-right order; flattening the result
\* again, as one argument or spread, gives the result.
C7_FlattenLeaves ==
  call.op = "flatten" =>
    /\ ~call.thrown
    /\ call.value.t = "array"
    /\ \A i \in 1..Len(call.value.a) : call.value.a[i].t # "array"
    /\ call.value.a = LeafList(Arr(0, call.args))
    /\ flatten(heap, <<call.value>>).value = call.value
    /\ flatten(heap, call.value.a).value = call.value

C7_Witness ==
  /\ call.op = "flatten"
  /\ \E i \in 1..Len(call.args) :
       /\ call.args[i].t = "array"
       /\ \E j \in 1..Len(call.args[i].a) :
            /\ call.args[i].a[j].t = "array"
            /\ Len(call.args[i].a[j].a) = 2
  /\ Len(call.value.a) >= 3
  /\ \E i \in 1..Len(call.value.a) : call.value.a[i] = Undefined
  /\ \E i \in 1..Len(call.value.a) : call.value.a[i] = Ref(5)

\* The keys the objects of a heap hold.
SomeKeys(h) ==
  UNION {{h[i][j].k : j \in 1..Len(h[i])} : i \in 1..Len(h)}

\* The truthy sources, by position, that own key k.
Owners(h, objs, k) ==
  {i \in 1..Len(objs) : Truthy(objs[i]) /\ HasOwn(h, objs[i], k)}

Max(S) == CHOOSE i \in S : \A j \in S : j <= i

Matches(src, predicate) ==
  {i \in 1..Len(src) :
     predicate.t = "function" /\ Truthy(PredApply(predicate.f, <<src[i]>>))}

Min(S) == CHOOSE i \in S : \A j \in S : i <= j

\* C9: for a truthy iterable, scanned as [iterable] when it is not
\* array-like, and a predicate that is a function or absent: when predicate
\* is truthy on some element, findIndex returns the least such index i, find
\* the element at i and some true, and predicate is invoked on the elements
\* up to i and on none after it; otherwise all three return undefined.
C9_FirstMatch ==
  (call.op \in {"find", "findIndex", "some"} /\ Truthy(call.args[1])) =>
    LET src == Normalised(ObjectTable, call.args[1])
        m == Matches(src, call.args[2])
        scanned == IF m # {} THEN Min(m)
                   ELSE IF call.args[2].t = "function" THEN Len(src)
                   ELSE 0
    IN /\ ~call.thrown
       /\ call.log = [i \in 1..scanned |-> Invocation(call.args[3], <<src[i]>>)]
       /\ IF m = {} THEN call.value = Undefined
          ELSE /\ call.op = "findIndex" => call.value = Num(Min(m) - 1)
               /\ call.op = "find" => call.value = src[Min(m)]
               /\ call.op = "some" => call.value = Bool(TRUE)

C9_Witness ==
  /\ call.op = "find"
  /\ call.args[1] = Arr(0, <<Num(1), Num(1)>>)
  /\ call.args[2] = Fn("isOne")
  /\ call.value = Num(1)
  /\ Len(call.log) = 1

\* The element count of a truthy obj: its length when array-like, the number
\* of its own enumerable keys otherwise.
ElementCount(h, obj) ==
  IF obj.t = "array" \/ ArrayLikeObject(h, obj) THEN Len(ElementsOf(h, obj))
  ELSE Len(ForIn(h, obj))

\* What map passes to predicate for slot i: the element and its index, or
\* the value and its key.
MapArgs(h, obj, i) ==
  IF obj.t = "array" \/ ArrayLikeObject(h, obj)
  THEN <<ElementsOf(h, obj)[i], Num(i - 1)>>
  ELSE <<Get(h, obj, ForIn(h, obj)[i]).value, Str(ForIn(h, obj)[i])>>

\* C10, as claimed: for a truthy obj and any predicate, an absent one
\* included, map returns a sequence as long as obj's element count.
C10_MapLength ==
  (call.op = "map" /\ Truthy(call.args[1])) =>
    /\ ~call.thrown
    /\ call.value.t = "array"
    /\ Len(call.value.a) = ElementCount(ObjectTable, call.args[1])

\* C10, amended: for a truthy obj and a function predicate, map returns a new
\* sequence as long as obj's element count whose slot i holds
\* predicate(element, index) for an array-like obj and predicate(value, key)
\* for the i-th own enumerable key otherwise, invoked in that order, and no
\* object is modified; with an absent predicate it returns an empty sequence.
C10_MapSlots ==
  (call.op = "map" /\ Truthy(call.args[1])) =>
    LET obj == call.args[1]
        n == ElementCount(ObjectTable, obj)
    IN /\ ~call.thrown
       /\ call.value.t = "array"
       /\ heap = ObjectTable
       /\ IF call.args[2].t = "function"
          THEN /\ Len(call.value.a) = n
               /\ \A i \in 1..n :
                    call.value.a[i] =
                      PredApply(call.args[2].f, MapArgs(ObjectTable, obj, i))
               /\ call.log = [i \in 1..n |->
                                Invocation(call.args[3],
                                           MapArgs(ObjectTable, obj, i))]
          ELSE call.value.a = <<>> /\ call.log = <<>>

C10_Witness ==
  /\ call.op = "map"
  /\ call.args[1] = Ref(4)
  /\ call.args[2] = Fn("pair")
  /\ Len(call.value.a) = 3
  /\ call.value.a[2] = Arr(0, <<Num(2), Str(<<"a", "b">>)>>)

====
